---- MODULE Spec2Model ----
(***************************************************************************)
(* Model of the puzzle feed of app/(tabs)/puzzles.tsx: the feed of         *)
(* BoardModel instances (useBoards), the Board component's tap handling,   *)
(* the move classification of onMovePlayed with its auto-advance timers,   *)
(* the reaction toggles and the FlatList callbacks; and of the startup     *)
(* flow: the Splash screen of app/index.tsx and the Onboarding screen.     *)
(*                                                                         *)
(* Feed indices are 0-based as in the code; the instance at index i is     *)
(* boards[i + 1].  The id `b-${n}` is modelled by the number n.            *)
(* An absent optional value (undefined / null) is a sentinel of the same   *)
(* shape: "undefined" for lastMoveCorrect, NoMove for lastMove, NoSquare   *)
(* for the selection, "none" for a MoveSpec without promotion.             *)
(* The display-only fields tactic, sideToPlay and correctSquares and the   *)
(* sounds are left out: no handler reads them.                             *)
(***************************************************************************)
EXTENDS Integers, Sequences, FiniteSets, TLC

VARIABLES
    catalog,        \* PRESET_PUZZLES: the list of puzzle definitions
    boards,         \* useBoards: the boards state (sequence of BoardModel)
    boardUI,        \* Board: the selected / moves state of each mounted Board
    loadingRef,     \* useBoards: loadingRef.current
    cursorRef,      \* useBoards: cursorRef.current
    appendTimers,   \* number of pending setTimeout(.., 5) callbacks of addBoard
    currentIndex,   \* Puzzles: the currentIndex state
    advanceTimers,  \* pending setTimeout callbacks of onMovePlayed, oldest first
    scrollTarget,   \* index handed to the latest listRef.scrollToIndex, or NoIndex
    storedFlag,     \* storage: the value kept under "onboardingCompleted"
    hasCompletedRef,\* Splash: hasCompletedRef.current
    readState,      \* Splash: the storage.getItem call: pending, done or failed
    screen,         \* the route shown: "splash", "onboarding" or "puzzles"
    replaces,       \* number of router.replace calls of the Splash of this startup
    index,          \* Onboarding: the index state (page shown)
    writeState,     \* Onboarding: the storage.setItem call: none or pending
    startups        \* number of times the application has been started

\* the startup flow: the stored flag, the Splash and the Onboarding screen
shell == << storedFlag, hasCompletedRef, readState, screen, replaces, index,
            writeState, startups >>

vars == << catalog, boards, boardUI, loadingRef, cursorRef, appendTimers,
           currentIndex, advanceTimers, scrollTarget, shell >>

----------------------------------------------------------------------------
(* Bounds of the model *)

\* the feed is not grown beyond this many instances
MaxBoards == 4
\* no more than this many marks are left on the feed: moves played and
\* liked / starred flags set
MaxMarks == 2
\* longest solution of a drawn puzzle definition (handler specification)
MaxSolLen == 2
\* longest drawn catalog (feed specification)
MaxCatalog == 3
\* number of times the application is started (startup specification)
MaxStartups == 3

(* Program constants *)

\* useBoards(2): number of instances created at construction
InitialBoards == 2
\* ensurePreload: boards.length - idx < 3
LookaheadMin == 3

NoIndex == -1
NoSquare == "-"
NoMove == [from |-> "-", to |-> "-"]

Min(a, b) == IF a <= b THEN a ELSE b

----------------------------------------------------------------------------
(* The rules engine (chess.js), seen through the calls the code makes.     *)
(* A position is the side to move and the occupancy ("w", "b" or "-") of   *)
(* the squares the offered moves touch; fen names the position loaded.     *)
(* For each position the engine's moves are restricted to a pool: the      *)
(* solution steps of the puzzle, one quiet move per side and the moves     *)
(* that open the line of a blocked solution step, each with the condition  *)
(* under which chess.js accepts it.                                        *)

\* a pool move: the piece on `from` of side `side` goes to `to`; it needs the
\* squares of `clear` empty and the destination `dest`:
\* "empty", "enemy" (a pawn capture) or "free" (empty or enemy);
\* `extra` lists further squares it changes (the rook of a castling move)
PoolMove(from, to, side, clear, dest, extra) ==
    [from |-> from, to |-> to, side |-> side, clear |-> clear, dest |-> dest,
     extra |-> extra]

Piece(from, to, side) == PoolMove(from, to, side, {}, "free", {})

\* a rook or knight stepping aside
Shuffle(a, b, side) == { Piece(a, b, side) }

\* side to move of the FEN of PRESET_PUZZLES[k - 1]
FenTurn(k) == IF k \in {2, 5, 7} THEN "b" ELSE "w"

\* occupancy of the tracked squares in the FEN of PRESET_PUZZLES[k - 1]
FenOcc(k) ==
    CASE k = 1 -> ("e2" :> "w" @@ "e4" :> "-" @@ "g1" :> "w" @@ "f3" :> "-"
                   @@ "g8" :> "b" @@ "f6" :> "-")
      [] k = 2 -> ("e7" :> "b" @@ "e5" :> "-" @@ "g8" :> "b" @@ "f6" :> "-"
                   @@ "g1" :> "w" @@ "f3" :> "-")
      [] k = 3 -> ("d4" :> "w" @@ "e5" :> "b" @@ "f3" :> "w" @@ "h1" :> "w"
                   @@ "g1" :> "-" @@ "a8" :> "b" @@ "b8" :> "-")
      [] k = 4 -> ("d1" :> "w" @@ "b3" :> "-" @@ "a1" :> "w" @@ "b1" :> "-"
                   @@ "h8" :> "b" @@ "g8" :> "-")
      [] k = 5 -> ("c6" :> "b" @@ "d4" :> "w" @@ "a8" :> "b" @@ "b8" :> "-"
                   @@ "a1" :> "w" @@ "b1" :> "-")
      [] k = 6 -> ("d1" :> "w" @@ "d2" :> "w" @@ "d4" :> "w" @@ "d5" :> "b"
                   @@ "d6" :> "b" @@ "d8" :> "b" @@ "a1" :> "w" @@ "b1" :> "-"
                   @@ "f8" :> "b" @@ "e8" :> "-" @@ "e3" :> "w" @@ "e4" :> "-"
                   @@ "e5" :> "b")
      [] k = 7 -> ("e8" :> "b" @@ "f8" :> "-" @@ "g8" :> "-" @@ "h8" :> "b"
                   @@ "a8" :> "b" @@ "b8" :> "-" @@ "a1" :> "w" @@ "b1" :> "-")
      [] k = 8 -> ("d1" :> "w" @@ "h5" :> "-" @@ "f3" :> "w" @@ "g1" :> "-"
                   @@ "a8" :> "b" @@ "b8" :> "-")
      [] k = 9 -> ("c3" :> "w" @@ "d4" :> "w" @@ "e5" :> "b" @@ "a1" :> "w"
                   @@ "b1" :> "-" @@ "h8" :> "b" @@ "g8" :> "-")
      [] OTHER -> ("c3" :> "w" @@ "d5" :> "-" @@ "a1" :> "w" @@ "b1" :> "-"
                   @@ "a8" :> "b" @@ "b8" :> "-")

\* the moves of the pool of the position loaded from PRESET_PUZZLES[k - 1]
Pool(k) ==
    CASE k = 1 -> { PoolMove("e2", "e4", "w", {}, "empty", {}) }
                  \cup Shuffle("g1", "f3", "w") \cup Shuffle("g8", "f6", "b")
      [] k = 2 -> { PoolMove("e7", "e5", "b", {}, "empty", {}) }
                  \cup Shuffle("g8", "f6", "b") \cup Shuffle("g1", "f3", "w")
      [] k = 3 -> { PoolMove("d4", "e5", "w", {}, "enemy", {}),
                    Piece("f3", "d4", "w") }
                  \cup Shuffle("h1", "g1", "w") \cup Shuffle("a8", "b8", "b")
      [] k = 4 -> { Piece("d1", "b3", "w") }
                  \cup Shuffle("a1", "b1", "w") \cup Shuffle("h8", "g8", "b")
      [] k = 5 -> { Piece("c6", "d4", "b") }
                  \cup Shuffle("a8", "b8", "b") \cup Shuffle("a1", "b1", "w")
      [] k = 6 -> { PoolMove("d1", "d8", "w", {"d2", "d4", "d5", "d6"}, "free", {}),
                    PoolMove("d4", "e5", "w", {}, "enemy", {}),
                    Piece("d6", "e5", "b"),
                    PoolMove("e3", "e4", "w", {}, "empty", {}),
                    PoolMove("d5", "e4", "b", {}, "enemy", {}),
                    Piece("d2", "e4", "w") }
                  \cup Shuffle("a1", "b1", "w") \cup Shuffle("f8", "e8", "b")
      [] k = 7 -> { PoolMove("e8", "g8", "b", {"f8"}, "empty",
                             { <<"h8", "-">>, <<"f8", "b">> }),
                    Piece("g8", "h8", "b") }
                  \cup Shuffle("a8", "b8", "b") \cup Shuffle("a1", "b1", "w")
      [] k = 8 -> { PoolMove("d1", "h5", "w", {"f3"}, "free", {}) }
                  \cup Shuffle("f3", "g1", "w") \cup Shuffle("a8", "b8", "b")
      [] k = 9 -> { PoolMove("c3", "d4", "w", {}, "enemy", {}),
                    PoolMove("e5", "d4", "b", {}, "enemy", {}) }
                  \cup Shuffle("a1", "b1", "w") \cup Shuffle("h8", "g8", "b")
      [] OTHER -> { Piece("c3", "d5", "w") }
                  \cup Shuffle("a1", "b1", "w") \cup Shuffle("a8", "b8", "b")

Other(side) == IF side = "w" THEN "b" ELSE "w"

\* new Chess(); chess.load(p.fen)
LoadFen(k) == [fen |-> k, turn |-> FenTurn(k), occ |-> FenOcc(k)]

\* chess.get(sq): the colour of the piece on sq, "-" for none
PieceColor(chess, sq) == chess.occ[sq]

\* chess.moves({ square: sq, verbose: true }), as { from, to } records
LegalMoves(chess, sq) ==
    { [from |-> m.from, to |-> m.to] :
        m \in { p \in Pool(chess.fen) :
                  /\ p.from = sq
                  /\ p.side = chess.turn
                  /\ chess.occ[p.from] = p.side
                  /\ \A c \in p.clear : chess.occ[c] = "-"
                  /\ CASE p.dest = "empty" -> chess.occ[p.to] = "-"
                       [] p.dest = "enemy" -> chess.occ[p.to] = Other(p.side)
                       [] OTHER -> chess.occ[p.to] # p.side } }

\* variant of ApplyMove: the turn is not passed to the other side
ApplyMoveKeepsTurn(chess, mv) ==
    LET p == CHOOSE q \in Pool(chess.fen) : q.from = mv.from /\ q.to = mv.to
    IN  [chess EXCEPT
           !.occ = [s \in DOMAIN chess.occ |->
                      IF s = p.from THEN "-"
                      ELSE IF s = p.to THEN p.side
                      ELSE IF \E e \in p.extra : e[1] = s
                           THEN (CHOOSE e \in p.extra : e[1] = s)[2]
                      ELSE chess.occ[s]]]

\* the position after chess.move({ from, to, promotion: "q" }) of a legal move
ApplyMove(chess, mv) ==
    LET p == CHOOSE q \in Pool(chess.fen) : q.from = mv.from /\ q.to = mv.to
    IN  [chess EXCEPT
           !.turn = Other(chess.turn),
           !.occ = [s \in DOMAIN chess.occ |->
                      IF s = p.from THEN "-"
                      ELSE IF s = p.to THEN p.side
                      ELSE IF \E e \in p.extra : e[1] = s
                           THEN (CHOOSE e \in p.extra : e[1] = s)[2]
                      ELSE chess.occ[s]]]

----------------------------------------------------------------------------
(* The catalog and the feed (useBoards) *)

Step(from, to) == [from |-> from, to |-> to, promotion |-> "none"]

\* the hard-coded list of 10 puzzles; fen k stands for the FEN of entry k - 1
PRESET_PUZZLES ==
    << [fen |-> 1, solution |-> << Step("e2", "e4") >>],
       [fen |-> 2, solution |-> << Step("e7", "e5") >>],
       [fen |-> 3, solution |-> << Step("d4", "e5"), Step("f3", "d4") >>],
       [fen |-> 4, solution |-> << Step("d1", "b3") >>],
       [fen |-> 5, solution |-> << Step("c6", "d4") >>],
       [fen |-> 6, solution |-> << Step("d1", "d8") >>],
       [fen |-> 7, solution |-> << Step("e8", "g8"), Step("g8", "h8") >>],
       [fen |-> 8, solution |-> << Step("d1", "h5") >>],
       [fen |-> 9, solution |-> << Step("c3", "d4") >>],
       [fen |-> 10, solution |-> << Step("c3", "d5") >> ] >>

createBoardFromPreset(p, id) ==
    [id |-> id, chess |-> LoadFen(p.fen), liked |-> FALSE, starred |-> FALSE,
     version |-> 0, solution |-> p.solution, stepIndex |-> 0, solved |-> FALSE,
     lastMove |-> NoMove, lastMoveCorrect |-> "undefined"]

\* useState(() => Array.from({ length: initial }, (_, i) => ...))
InitialFeed(cat, initial) ==
    [j \in 1..initial |->
        createBoardFromPreset(cat[((j - 1) % Len(cat)) + 1], j - 1)]

\* Board: useState<Square | null>(null), useState<Move[]>([])
FreshUI == [selected |-> NoSquare, moves |-> {}]

\* variant of AppendedFeed: the id is taken from the length of the initial
\* feed instead of prev.length
AppendedFeedStaleId(cat, prev, cursor) ==
    Append(prev, createBoardFromPreset(cat[(cursor % Len(cat)) + 1], InitialBoards))

\* variant of AppendedFeed: the new instance is put in front of the feed
AppendedFeedInFront(cat, prev, cursor) ==
    << createBoardFromPreset(cat[(cursor % Len(cat)) + 1], Len(prev)) >> \o prev

\* variant of AppendedFeed: the cursor is clamped to the catalog, not wrapped
AppendedFeedClamped(cat, prev, cursor) ==
    Append(prev, createBoardFromPreset(cat[Min(cursor, Len(cat) - 1) + 1], Len(prev)))

\* the state update of the timer callback of addBoard
AppendedFeed(cat, prev, cursor) ==
    Append(prev, createBoardFromPreset(cat[(cursor % Len(cat)) + 1], Len(prev)))

\* variant of AddBoardStarts: the in-flight check is missing
AddBoardStartsUnguarded == TRUE

\* addBoard: the call is dropped while loadingRef.current is set
AddBoardStarts == ~loadingRef

\* addBoard()
addBoard ==
    /\ loadingRef' = TRUE
    /\ appendTimers' = IF AddBoardStarts THEN appendTimers + 1 ELSE appendTimers

\* an event that calls addBoard is taken only while the feed may still grow
RoomToGrow == loadingRef \/ Len(boards) < MaxBoards

\* variant of AppendTimerFires: the callback leaves loadingRef.current set
AppendTimerFiresKeepsFlag ==
    /\ appendTimers > 0
    /\ boards' = AppendedFeed(catalog, boards, cursorRef)
    /\ boardUI' = Append(boardUI, FreshUI)
    /\ cursorRef' = cursorRef + 1
    /\ loadingRef' = loadingRef
    /\ appendTimers' = appendTimers - 1
    /\ UNCHANGED << shell, catalog, currentIndex, advanceTimers, scrollTarget >>

\* the callback of setTimeout(.., 5) set by addBoard
AppendTimerFires ==
    /\ appendTimers > 0
    /\ boards' = AppendedFeed(catalog, boards, cursorRef)
    /\ boardUI' = Append(boardUI, FreshUI)
    /\ cursorRef' = cursorRef + 1
    /\ loadingRef' = FALSE
    /\ appendTimers' = appendTimers - 1
    /\ UNCHANGED << shell, catalog, currentIndex, advanceTimers, scrollTarget >>

\* FlatList onEndReached={addBoard}: the list is within the threshold of its end
OnEndReached ==
    /\ currentIndex >= Len(boards) - 2
    /\ RoomToGrow
    /\ addBoard
    /\ UNCHANGED << shell, catalog, boards, boardUI, cursorRef, currentIndex,
                    advanceTimers, scrollTarget >>

\* ensurePreload(idx): onViewableItemsChanged is held in useRef(..).current, so
\* the ensurePreload it calls is the one of the first render, whose `boards`
\* is the initial state: boards.length there is the initial length
EnsurePreloadAdds(idx) == InitialBoards - idx < LookaheadMin

\* the list is taken to leave a page only while its Board holds no selection
\* (a Board left behind with a piece selected is not explored)
MayLeave(idx) == idx = currentIndex \/ boardUI[currentIndex + 1].selected = NoSquare

\* onViewableItemsChanged({ viewableItems }) with viewableItems[0].index = idx:
\* the list shows a neighbouring page, or the page scrollToIndex asked for
OnViewableItemsChanged(idx) ==
    /\ idx \in 0..(Len(boards) - 1)
    /\ MayLeave(idx)
    /\ \/ idx \in (currentIndex - 1)..(currentIndex + 1)
       \/ idx = scrollTarget
    /\ currentIndex' = idx
    /\ scrollTarget' = NoIndex
    /\ IF EnsurePreloadAdds(idx)
       THEN RoomToGrow /\ addBoard
       ELSE UNCHANGED << loadingRef, appendTimers >>
    /\ UNCHANGED << shell, catalog, boards, boardUI, cursorRef, advanceTimers >>

----------------------------------------------------------------------------
(* onMovePlayed: the classification of a played move *)

\* const expected = b.solution[step] is defined
HasExpected(b) == b.stepIndex < Len(b.solution)

\* variant of PlayedMatches: the promotion of the expected step is compared
\* too, against a played move that carries none
PlayedMatchesPromotion(b, last) ==
    IF HasExpected(b)
    THEN LET expected == b.solution[b.stepIndex + 1]
         IN  /\ expected.from = last.from
             /\ expected.to = last.to
             /\ expected.promotion = "none"
    ELSE TRUE

\* variant of PlayedMatches: a move with no expected step does not match
PlayedMatchesStrict(b, last) ==
    IF HasExpected(b)
    THEN LET expected == b.solution[b.stepIndex + 1]
         IN  expected.from = last.from /\ expected.to = last.to
    ELSE FALSE

\* const playedMatches = expected ? (...) : true
PlayedMatches(b, last) ==
    IF HasExpected(b)
    THEN LET expected == b.solution[b.stepIndex + 1]
         IN  expected.from = last.from /\ expected.to = last.to
    ELSE TRUE

\* variant of SolvedNow: step is compared instead of nextStep
SolvedNowLate(b) ==
    /\ b.stepIndex >= Len(b.solution)
    /\ Len(b.solution) > 0

\* variant of SolvedNow: the length > 0 test is missing
SolvedNowAnyLength(b) == b.stepIndex + 1 >= Len(b.solution)

\* const solvedNow = nextStep >= length && length > 0
SolvedNow(b) ==
    /\ b.stepIndex + 1 >= Len(b.solution)
    /\ Len(b.solution) > 0

\* variant of MovedBoard: an incorrect move restarts the puzzle
MovedBoardRestart(b, last) ==
    IF ~PlayedMatches(b, last)
    THEN [b EXCEPT !.lastMove = last, !.lastMoveCorrect = "false",
                   !.stepIndex = 0, !.solved = FALSE,
                   !.version = b.version + 1]
    ELSE [b EXCEPT !.lastMove = last, !.lastMoveCorrect = "true",
                   !.stepIndex = b.stepIndex + 1,
                   !.solved = IF SolvedNow(b) THEN TRUE ELSE b.solved,
                   !.version = b.version + 1]

\* variant of MovedBoard: solved is written as `nextStep === length`
MovedBoardSolvedExact(b, last) ==
    IF ~PlayedMatches(b, last)
    THEN [b EXCEPT !.lastMove = last, !.lastMoveCorrect = "false",
                   !.version = b.version + 1]
    ELSE [b EXCEPT !.lastMove = last, !.lastMoveCorrect = "true",
                   !.stepIndex = b.stepIndex + 1,
                   !.solved = (b.stepIndex + 1 = Len(b.solution)),
                   !.version = b.version + 1]

\* variant of MovedBoard: the incorrect branch does not record the move
MovedBoardDropsMove(b, last) ==
    IF ~PlayedMatches(b, last)
    THEN [b EXCEPT !.lastMoveCorrect = "false", !.version = b.version + 1]
    ELSE [b EXCEPT !.lastMove = last, !.lastMoveCorrect = "true",
                   !.stepIndex = b.stepIndex + 1,
                   !.solved = IF SolvedNow(b) THEN TRUE ELSE b.solved,
                   !.version = b.version + 1]

\* variant of MovedBoard: the incorrect branch does not bump version
MovedBoardNoBump(b, last) ==
    IF ~PlayedMatches(b, last)
    THEN [b EXCEPT !.lastMove = last, !.lastMoveCorrect = "false"]
    ELSE [b EXCEPT !.lastMove = last, !.lastMoveCorrect = "true",
                   !.stepIndex = b.stepIndex + 1,
                   !.solved = IF SolvedNow(b) THEN TRUE ELSE b.solved,
                   !.version = b.version + 1]

\* the object the updater returns for the board with the played id
MovedBoard(b, last) ==
    IF ~PlayedMatches(b, last)
    THEN [b EXCEPT !.lastMove = last, !.lastMoveCorrect = "false",
                   !.version = b.version + 1]
    ELSE [b EXCEPT !.lastMove = last, !.lastMoveCorrect = "true",
                   !.stepIndex = b.stepIndex + 1,
                   !.solved = IF SolvedNow(b) THEN TRUE ELSE b.solved,
                   !.version = b.version + 1]

\* the setTimeout calls of the updater for the board at index i of prev
MoveTimers(b, last, i, prevLen) ==
    IF ~PlayedMatches(b, last)
    THEN << [i |-> i, len |-> prevLen, delay |-> 350] >>
    ELSE IF SolvedNow(b)
         THEN << [i |-> i, len |-> prevLen, delay |-> 550] >>
         ELSE << >>

\* the timers set while prev.map visits the boards from index j - 1 on
RECURSIVE TimersFrom(_, _, _, _)
TimersFrom(prev, id, last, j) ==
    IF j > Len(prev) THEN << >>
    ELSE (IF prev[j].id = id THEN MoveTimers(prev[j], last, j - 1, Len(prev))
          ELSE << >>) \o TimersFrom(prev, id, last, j + 1)

\* variant of MovedFeed: the instances are matched by their puzzle definition,
\* not by their id
MovedFeedSameDefinition(prev, id, last) ==
    LET played == CHOOSE b \in { prev[j] : j \in 1..Len(prev) } : b.id = id
    IN  [j \in 1..Len(prev) |->
            IF prev[j].chess.fen # played.chess.fen THEN prev[j]
            ELSE MovedBoard(prev[j], last)]

\* prev.map((b, i) => b.id !== id ? b : ...)
MovedFeed(prev, id, last) ==
    [j \in 1..Len(prev) |->
        IF prev[j].id # id THEN prev[j] ELSE MovedBoard(prev[j], last)]

\* the callback of a timer set by onMovePlayed
FireAdvance(k) ==
    /\ k \in 1..Len(advanceTimers)
    /\ LET t == advanceTimers[k]
           nextIdx == Min(t.i + 1, t.len - 1)
       IN  scrollTarget' = nextIdx
    /\ advanceTimers' = [j \in 1..(Len(advanceTimers) - 1) |->
                            IF j < k THEN advanceTimers[j] ELSE advanceTimers[j + 1]]
    /\ UNCHANGED << shell, catalog, boards, boardUI, loadingRef, cursorRef, appendTimers,
                    currentIndex >>

----------------------------------------------------------------------------
(* Board: the tap handler *)

\* the page of the list that is in view, the one that takes the taps
InView(i) ==
    /\ i \in 0..(Len(boards) - 1)
    /\ i = currentIndex

RECURSIVE VersionsFrom(_, _)
VersionsFrom(prev, j) ==
    IF j > Len(prev) THEN 0 ELSE prev[j].version + VersionsFrom(prev, j + 1)

\* number of moves played so far: each bumps the version of one instance
TotalMoves == VersionsFrom(boards, 1)

RECURSIVE CountFrom(_, _)
CountFrom(prev, j) ==
    IF j > Len(prev) THEN 0
    ELSE (IF prev[j].liked THEN 1 ELSE 0) + (IF prev[j].starred THEN 1 ELSE 0)
         + CountFrom(prev, j + 1)

\* number of liked / starred flags set in the feed
NumReactions == CountFrom(boards, 1)

\* the marks left on the feed
Marks == TotalMoves + NumReactions

\* moveForTarget(sq) finds a move
HasMoveForTarget(ui, sq) == \E m \in ui.moves : m.to = sq

\* moveForTarget(sq): moves.find((m) => m.to === sq)
moveForTarget(ui, sq) == CHOOSE m \in ui.moves : m.to = sq

\* chess.move(..) returns the move when the engine accepts it, null otherwise
Accepted(chess, mv) == mv \in LegalMoves(chess, mv.from)

\* variant of Select: the targets are every move of the piece, legal or not
SelectUnchecked(chess, sq) ==
    [selected |-> sq,
     moves |-> { [from |-> p.from, to |-> p.to] :
                   p \in { q \in Pool(chess.fen) : q.from = sq } }]

\* setSelected(sq); setMoves(chess.moves({ square: sq, verbose: true }))
Select(chess, sq) == [selected |-> sq, moves |-> LegalMoves(chess, sq)]

\* onMovePlayed(id, last): setBoards(prev => prev.map(..)) and its timers,
\* applied to the feed `prev` (the chess object of a board is shared by
\* reference, so prev already carries the position after the move)
OnMovePlayed(prev, id, last) ==
    /\ boards' = MovedFeed(prev, id, last)
    /\ advanceTimers' = advanceTimers \o TimersFrom(prev, id, last, 1)

\* onSquarePress(r, c) on the Board of the instance at index i, toSquare(r, c) = sq
SquarePress(i, sq) ==
    /\ sq \in DOMAIN boards[i + 1].chess.occ
    /\ LET b == boards[i + 1]
           ui == boardUI[i + 1]
           chess == b.chess
           ownPiece == PieceColor(chess, sq) = chess.turn
       IN  IF ui.selected = NoSquare
           THEN /\ boardUI' = IF ownPiece
                              THEN [boardUI EXCEPT ![i + 1] = Select(chess, sq)]
                              ELSE boardUI
                /\ UNCHANGED << boards, advanceTimers >>
           ELSE IF sq = ui.selected
           THEN /\ boardUI' = [boardUI EXCEPT ![i + 1] = FreshUI]
                /\ UNCHANGED << boards, advanceTimers >>
           ELSE IF HasMoveForTarget(ui, sq)
           THEN LET mv == moveForTarget(ui, sq)
                    played == Accepted(chess, mv)
                    moved == IF played
                             THEN [boards EXCEPT ![i + 1].chess = ApplyMove(chess, mv)]
                             ELSE boards
                IN  /\ boardUI' = [boardUI EXCEPT ![i + 1] = FreshUI]
                    /\ IF played
                       THEN OnMovePlayed(moved, b.id, [from |-> mv.from, to |-> mv.to])
                       ELSE UNCHANGED << boards, advanceTimers >>
           ELSE /\ boardUI' = IF ownPiece
                              THEN [boardUI EXCEPT ![i + 1] = Select(chess, sq)]
                              ELSE [boardUI EXCEPT ![i + 1] = FreshUI]
                /\ UNCHANGED << boards, advanceTimers >>
    /\ UNCHANGED << shell, catalog, loadingRef, cursorRef, appendTimers, currentIndex,
                    scrollTarget >>

\* a tap on the Board of the page in view, while the feed has room for a mark
OnSquarePress(i, sq) ==
    /\ InView(i)
    /\ Marks < MaxMarks
    /\ SquarePress(i, sq)

----------------------------------------------------------------------------
(* The reactions *)

\* prev.map((b, i) => (i === currentIndex ? { ...b, liked: !b.liked } : b))
LikedAtIndex(prev, idx) ==
    [j \in 1..Len(prev) |->
        IF j - 1 = idx THEN [prev[j] EXCEPT !.liked = ~prev[j].liked] ELSE prev[j]]

\* prev.map((b, i) => (i === currentIndex ? { ...b, starred: !b.starred } : b))
StarredAtIndex(prev, idx) ==
    [j \in 1..Len(prev) |->
        IF j - 1 = idx THEN [prev[j] EXCEPT !.starred = ~prev[j].starred] ELSE prev[j]]

\* variant of LikedById: liked is set, not flipped
LikedByIdSet(prev, id) ==
    [j \in 1..Len(prev) |->
        IF prev[j].id = id THEN [prev[j] EXCEPT !.liked = TRUE] ELSE prev[j]]

\* prev.map(b => b.id === item.id ? { ...b, liked: !b.liked } : b)
LikedById(prev, id) ==
    [j \in 1..Len(prev) |->
        IF prev[j].id = id THEN [prev[j] EXCEPT !.liked = ~prev[j].liked] ELSE prev[j]]

\* variant of StarredById: the id test is missing, every instance is flipped
StarredByIdAll(prev, id) ==
    [j \in 1..Len(prev) |-> [prev[j] EXCEPT !.starred = ~prev[j].starred]]

\* prev.map(b => b.id === item.id ? { ...b, starred: !b.starred } : b)
StarredById(prev, id) ==
    [j \in 1..Len(prev) |->
        IF prev[j].id = id THEN [prev[j] EXCEPT !.starred = ~prev[j].starred] ELSE prev[j]]

\* a flag may be set while the feed has room for a mark, and cleared always
MayToggle(flag) == flag \/ Marks < MaxMarks

ReactionFrame ==
    UNCHANGED << shell, catalog, boardUI, loadingRef, cursorRef, appendTimers,
                 currentIndex, advanceTimers, scrollTarget >>

\* onDoubleTap (the TapGestureHandler around the list)
OnDoubleTap ==
    /\ currentIndex \in 0..(Len(boards) - 1)
    /\ MayToggle(boards[currentIndex + 1].liked)
    /\ boards' = LikedAtIndex(boards, currentIndex)
    /\ ReactionFrame

\* onTapLike
OnTapLike ==
    /\ currentIndex \in 0..(Len(boards) - 1)
    /\ MayToggle(boards[currentIndex + 1].liked)
    /\ boards' = LikedAtIndex(boards, currentIndex)
    /\ ReactionFrame

\* onTapStar
OnTapStar ==
    /\ currentIndex \in 0..(Len(boards) - 1)
    /\ MayToggle(boards[currentIndex + 1].starred)
    /\ boards' = StarredAtIndex(boards, currentIndex)
    /\ ReactionFrame

\* LikeStarActions.toggleLike of the item at index i
ToggleLike(i) ==
    /\ InView(i)
    /\ MayToggle(boards[i + 1].liked)
    /\ boards' = LikedById(boards, boards[i + 1].id)
    /\ ReactionFrame

\* LikeStarActions.toggleStar of the item at index i
ToggleStar(i) ==
    /\ InView(i)
    /\ MayToggle(boards[i + 1].starred)
    /\ boards' = StarredById(boards, boards[i + 1].id)
    /\ ReactionFrame

----------------------------------------------------------------------------
(* The startup flow: Splash (app/index.tsx), the stored flag and Onboarding *)

\* lib/config: export const FORCE_ONBOARDING_EVERY_TIME = true
FORCE_ONBOARDING_EVERY_TIME == TRUE

\* PAGES.length - 1 of Onboarding
LastPage == 2

\* the in-memory state of a fresh start of the application, with `stored`
\* under the key and `n` starts so far
ShellAtStart(stored, n) ==
    /\ storedFlag = stored
    /\ hasCompletedRef = FALSE
    /\ readState = "pending"
    /\ screen = "splash"
    /\ replaces = 0
    /\ index = 0
    /\ writeState = "none"
    /\ startups = n

FeedFrame ==
    UNCHANGED << catalog, boards, boardUI, loadingRef, cursorRef, appendTimers,
                 currentIndex, advanceTimers, scrollTarget >>

\* Splash: `hasCompletedRef.current = v === "1"` once getItem has resolved
ReadResolves ==
    /\ readState = "pending"
    /\ readState' = "done"
    /\ hasCompletedRef' = (storedFlag = "1")
    /\ UNCHANGED << storedFlag, screen, replaces, index, writeState, startups >>
    /\ FeedFrame

\* Splash: getItem rejects; `catch {}` leaves hasCompletedRef as it is
ReadRejects ==
    /\ readState = "pending"
    /\ readState' = "failed"
    /\ UNCHANGED << storedFlag, hasCompletedRef, screen, replaces, index,
                    writeState, startups >>
    /\ FeedFrame

\* Splash: the path chosen in the callback of the animation
SplashPath(completed) ==
    IF FORCE_ONBOARDING_EVERY_TIME THEN "onboarding"
    ELSE IF completed THEN "puzzles"
    ELSE "onboarding"

\* Splash: the callback of Animated.sequence(..).start: router.replace(path)
SplashAnimationEnds ==
    /\ screen = "splash"
    /\ screen' = SplashPath(hasCompletedRef)
    /\ replaces' = replaces + 1
    /\ UNCHANGED << storedFlag, hasCompletedRef, readState, index, writeState,
                    startups >>
    /\ FeedFrame

\* Onboarding: onMomentumScrollEnd, the list has come to rest on page i
OnMomentumScrollEnd(i) ==
    /\ screen = "onboarding"
    /\ i \in 0..LastPage
    /\ index' = i
    /\ UNCHANGED << storedFlag, hasCompletedRef, readState, screen, replaces,
                    writeState, startups >>
    /\ FeedFrame

\* completeAndEnter(), up to its await: storage.setItem is called.
\* One call per Onboarding screen is followed.
completeAndEnter ==
    /\ writeState = "none"
    /\ writeState' = "pending"
    /\ UNCHANGED << storedFlag, hasCompletedRef, readState, screen, replaces,
                    index, startups >>

\* Onboarding: goNext, the arrow button: the list is scrolled to the next
\* page, where it comes to rest, or onboarding is completed on the last page
GoNext ==
    /\ screen = "onboarding"
    /\ IF index < LastPage
       THEN /\ index' = index + 1
            /\ UNCHANGED << storedFlag, hasCompletedRef, readState, screen,
                            replaces, writeState, startups >>
       ELSE completeAndEnter
    /\ FeedFrame

\* Onboarding: the "Start Free Trial" button of the last page
PressStartTrial ==
    /\ screen = "onboarding"
    /\ index = LastPage
    /\ completeAndEnter
    /\ FeedFrame

\* variant of EnterAfterWrite: the feed is entered only if the flag was stored
EnterAfterWriteIfStored(ok) == IF ok THEN "puzzles" ELSE "onboarding"

\* completeAndEnter: router.replace("/(tabs)/puzzles") follows the try / catch
\* around setItem, whether the write was stored (ok) or rejected
EnterAfterWrite(ok) == "puzzles"

\* completeAndEnter: setItem resolves, the flag is stored
WriteResolves ==
    /\ writeState = "pending"
    /\ storedFlag' = "1"
    /\ writeState' = "none"
    /\ screen' = EnterAfterWrite(TRUE)
    /\ UNCHANGED << hasCompletedRef, readState, replaces, index, startups >>
    /\ FeedFrame

\* completeAndEnter: setItem rejects; `catch {}` swallows it
WriteRejects ==
    /\ writeState = "pending"
    /\ writeState' = "none"
    /\ screen' = EnterAfterWrite(FALSE)
    /\ UNCHANGED << storedFlag, hasCompletedRef, readState, replaces, index,
                    startups >>
    /\ FeedFrame

\* the application is closed and started again: the stored flag survives, a
\* write still pending may or may not have reached the store
Restart ==
    /\ startups < MaxStartups
    /\ storedFlag' \in (IF writeState = "pending" THEN { storedFlag, "1" }
                        ELSE { storedFlag })
    /\ hasCompletedRef' = FALSE
    /\ readState' = "pending"
    /\ screen' = "splash"
    /\ replaces' = 0
    /\ index' = 0
    /\ writeState' = "none"
    /\ startups' = startups + 1
    /\ FeedFrame

----------------------------------------------------------------------------
(* The application: the feed on the preset catalog *)

AllSquares == UNION { DOMAIN FenOcc(k) : k \in 1..Len(PRESET_PUZZLES) }

InitWith(cat) ==
    /\ catalog = cat
    /\ boards = InitialFeed(cat, InitialBoards)
    /\ boardUI = [j \in 1..InitialBoards |-> FreshUI]
    /\ loadingRef = FALSE
    /\ cursorRef = InitialBoards
    /\ appendTimers = 0
    /\ currentIndex = 0
    /\ advanceTimers = << >>
    /\ scrollTarget = NoIndex
    /\ ShellAtStart("null", 1)

Init == InitWith(PRESET_PUZZLES)

Next ==
    \/ \E i \in 0..(MaxBoards - 1), sq \in AllSquares : OnSquarePress(i, sq)
    \/ \E k \in 1..MaxMarks : FireAdvance(k)
    \/ OnDoubleTap
    \/ OnTapLike
    \/ OnTapStar
    \/ \E i \in 0..(MaxBoards - 1) : ToggleLike(i)
    \/ \E i \in 0..(MaxBoards - 1) : ToggleStar(i)
    \/ \E idx \in 0..(MaxBoards - 1) : OnViewableItemsChanged(idx)
    \/ OnEndReached
    \/ AppendTimerFires

Spec == Init /\ [][Next]_vars

\* the startup flow alone, the feed not yet touched
NextStartup ==
    \/ ReadResolves
    \/ ReadRejects
    \/ SplashAnimationEnds
    \/ \E i \in 0..LastPage : OnMomentumScrollEnd(i)
    \/ GoNext
    \/ PressStartTrial
    \/ WriteResolves
    \/ WriteRejects
    \/ Restart

SpecStartup == Init /\ [][NextStartup]_vars

----------------------------------------------------------------------------
(* The handler alone: onMovePlayed fed with moves on drawn puzzle            *)
(* definitions, without the Board in between                                *)

\* the solution steps and the played moves the handler is fed with
StepSet ==
    { [from |-> "e2", to |-> "e4", promotion |-> "none"],
      [from |-> "a7", to |-> "a8", promotion |-> "n"],
      [from |-> "a7", to |-> "a8", promotion |-> "q"] }

FedMoves ==
    { [from |-> "e2", to |-> "e4"], [from |-> "e2", to |-> "e3"],
      [from |-> "d3", to |-> "e4"], [from |-> "a7", to |-> "a8"] }

SolutionSet == UNION { [1..n -> StepSet] : n \in 0..MaxSolLen }

\* catalogs of one definition: every instance of the feed is built from it
CatalogSet == { << [fen |-> 1, solution |-> sol] >> : sol \in SolutionSet }

InitHandler == \E cat \in CatalogSet : InitWith(cat)

\* onMovePlayed(id, last, isCapture) for the instance at index i
FeedMove(i, last) ==
    /\ i \in 0..(Len(boards) - 1)
    /\ Marks < MaxMarks
    /\ OnMovePlayed(boards, boards[i + 1].id, last)
    /\ UNCHANGED << shell, catalog, boardUI, loadingRef, cursorRef, appendTimers,
                    currentIndex, scrollTarget >>

NextHandler ==
    \/ \E i \in 0..(InitialBoards - 1), last \in FedMoves : FeedMove(i, last)
    \/ \E k \in 1..MaxMarks : FireAdvance(k)

SpecHandler == InitHandler /\ [][NextHandler]_vars

----------------------------------------------------------------------------
(* The feed alone: useBoards on drawn catalogs short enough for the feed to  *)
(* wrap around, with the list callbacks and the reactions                   *)

\* the catalogs drawn: the first K puzzles of the preset list
CatalogPrefixes == { SubSeq(PRESET_PUZZLES, 1, K) : K \in 1..MaxCatalog }

InitFeed == \E cat \in CatalogPrefixes : InitWith(cat)

NextFeed ==
    \/ \E idx \in 0..(MaxBoards - 1) : OnViewableItemsChanged(idx)
    \/ OnEndReached
    \/ AppendTimerFires
    \/ \E i \in 0..(MaxBoards - 1) : ToggleLike(i)
    \/ \E i \in 0..(MaxBoards - 1) : ToggleStar(i)

SpecFeed == InitFeed /\ [][NextFeed]_vars

\* a timer set with setTimeout is run by the event loop
SpecFeedLive == SpecFeed /\ WF_vars(AppendTimerFires)

----------------------------------------------------------------------------
(* The application on a catalog of one puzzle: every instance of the feed   *)
(* is built from the same definition                                        *)

\* the catalog holds the first two-step puzzle of the preset list only
TwinCatalog == << PRESET_PUZZLES[3] >>

InitTwin == InitWith(TwinCatalog)

SpecTwin == InitTwin /\ [][Next]_vars

----------------------------------------------------------------------------
(* A player who works towards the solution: for each preset puzzle a line   *)
(* of play is tapped on the Board of the first instance, move after move.   *)
(* Where the step expected next cannot be played yet (the other side is to  *)
(* move, or the line of the piece is blocked) the line first plays the      *)
(* moves that make it playable.                                             *)

Ply(from, to) == [from |-> from, to |-> to]

\* the line of play for the position loaded from PRESET_PUZZLES[k - 1]
SolverLine(k) ==
    CASE k = 1 -> << Ply("e2", "e4") >>
      [] k = 2 -> << Ply("e7", "e5") >>
      [] k = 3 -> << Ply("d4", "e5"), Ply("a8", "b8"), Ply("f3", "d4") >>
      [] k = 4 -> << Ply("d1", "b3") >>
      [] k = 5 -> << Ply("c6", "d4") >>
      [] k = 6 -> << Ply("d4", "e5"), Ply("d6", "e5"), Ply("e3", "e4"),
                     Ply("d5", "e4"), Ply("d2", "e4"), Ply("f8", "e8"),
                     Ply("d1", "d8") >>
      [] k = 7 -> << Ply("e8", "g8"), Ply("a1", "b1"), Ply("g8", "h8") >>
      [] k = 8 -> << Ply("f3", "g1"), Ply("a8", "b8"), Ply("d1", "h5") >>
      [] k = 9 -> << Ply("a1", "b1"), Ply("e5", "d4"), Ply("c3", "d4") >>
      [] OTHER -> << Ply("c3", "d5") >>

\* the next tap of the player on the Board of the instance at index i: the
\* origin of the next move of the line, then its destination; the number of
\* moves played so far on the instance is its version
SolverPress(i) ==
    /\ InView(i)
    /\ LET b == boards[i + 1]
           line == SolverLine(b.chess.fen)
       IN  /\ b.version < Len(line)
           /\ LET ply == line[b.version + 1]
              IN  SquarePress(i, IF boardUI[i + 1].selected = NoSquare
                                 THEN ply.from ELSE ply.to)

InitSolve == \E k \in 1..Len(PRESET_PUZZLES) : InitWith(<< PRESET_PUZZLES[k] >>)

NextSolve ==
    \/ \E i \in 0..(InitialBoards - 1) : SolverPress(i)
    \/ \E t \in 1..Len(advanceTimers) : FireAdvance(t)

\* the player goes on tapping as long as the line has a tap left
SpecSolve ==
    /\ InitSolve
    /\ [][NextSolve]_vars
    /\ WF_vars(\E i \in 0..(InitialBoards - 1) : SolverPress(i))

----------------------------------------------------------------------------
(* Properties *)

\* the step plays a move on the instance boards[j]: only a move bumps version
MoveStep(j) ==
    /\ j \in 1..Len(boards')
    /\ boards'[j].version = boards[j].version + 1

\* the played move has the squares of the step of sol at 0-based index step
SameSquares(last, sol, step) ==
    /\ sol[step + 1].from = last.from
    /\ sol[step + 1].to = last.to

\* C1: whenever onMovePlayed is handed a move for an instance that still
\* expects a step (stepIndex < solution.length), the move is classified
\* correct (lastMoveCorrect = true) exactly when its from and to squares are
\* those of solution[stepIndex]; the promotion of the expected step plays
\* no part, and the played move carries none.
C1_CorrectIffSameSquares ==
    [][\A i \in 0..(Len(boards) - 1), last \in FedMoves :
          (FeedMove(i, last)
             /\ boards[i + 1].stepIndex < Len(boards[i + 1].solution))
          => ((boards'[i + 1].lastMoveCorrect = "true")
                <=> SameSquares(last, boards[i + 1].solution,
                                boards[i + 1].stepIndex))]_vars

\* C1 witness: a move was classified correct against a step that asks for a
\* knight promotion, and another instance has a move classified incorrect
C1_Witness ==
    \E j, k \in 1..Len(boards) :
        /\ Len(boards[j].solution) >= 1
        /\ boards[j].solution[1].promotion = "n"
        /\ boards[j].lastMoveCorrect = "true"
        /\ boards[j].stepIndex = 1
        /\ boards[k].lastMoveCorrect = "false"

\* an instance on which only the steps of its solution were played, in order:
\* every move so far was classified correct against an expected step
InOrder(b) == b.version = b.stepIndex /\ b.stepIndex <= Len(b.solution)

\* C2: on an instance that from fresh has only been fed solution[0],
\* solution[1], ... in order, feeding the next step solution[stepIndex] raises
\* stepIndex by exactly 1; solved was false before it and is true after it
\* exactly when stepIndex has reached the length of the solution.
C2_InOrderSolvesOnLastStep ==
    [][\A i \in 0..(Len(boards) - 1), last \in FedMoves :
          LET b == boards[i + 1]
          IN  (/\ FeedMove(i, last)
               /\ InOrder(b)
               /\ b.stepIndex < Len(b.solution)
               /\ SameSquares(last, b.solution, b.stepIndex))
              => /\ ~b.solved
                 /\ boards'[i + 1].stepIndex = b.stepIndex + 1
                 /\ boards'[i + 1].solved
                      <=> (boards'[i + 1].stepIndex = Len(b.solution))]_vars

\* C2 witness: a two-step solution played through in order
C2_Witness ==
    \E j \in 1..Len(boards) :
        /\ Len(boards[j].solution) = 2
        /\ InOrder(boards[j])
        /\ boards[j].stepIndex = 2
        /\ boards[j].solved

\* C3: a played move whose squares are not those of the expected step
\* solution[stepIndex] leaves stepIndex and solved of the instance as they
\* were, sets lastMove to the played move and lastMoveCorrect to false.
C3_IncorrectKeepsProgress ==
    [][\A i \in 0..(Len(boards) - 1), last \in FedMoves :
          LET b == boards[i + 1]
          IN  (/\ FeedMove(i, last)
               /\ b.stepIndex < Len(b.solution)
               /\ ~SameSquares(last, b.solution, b.stepIndex))
              => /\ boards'[i + 1].stepIndex = b.stepIndex
                 /\ boards'[i + 1].solved = b.solved
                 /\ boards'[i + 1].lastMove = last
                 /\ boards'[i + 1].lastMoveCorrect = "false"]_vars

\* C3 witness: an incorrect move played after a correct first step
C3_Witness ==
    \E j \in 1..Len(boards) :
        /\ boards[j].stepIndex = 1
        /\ boards[j].version = 2
        /\ boards[j].lastMoveCorrect = "false"
        /\ ~boards[j].solved

\* C4 (as claimed): every instance has 0 <= stepIndex <= solution.length
C4_StepIndexInRange ==
    \A j \in 1..Len(boards) :
        /\ 0 <= boards[j].stepIndex
        /\ boards[j].stepIndex <= Len(boards[j].solution)

\* C5 (as claimed): solved holds exactly when stepIndex = solution.length and
\* the solution is not empty
C5_SolvedIffAtEnd ==
    \A j \in 1..Len(boards) :
        boards[j].solved
          <=> (/\ boards[j].stepIndex = Len(boards[j].solution)
               /\ Len(boards[j].solution) > 0)

\* C6: once an instance is solved, no step (a move, a reaction, an append, a
\* view change, a timer) makes it unsolved or removes it.
C6_SolvedIsTerminal ==
    [][\A j \in 1..Len(boards) :
          boards[j].solved => (j <= Len(boards') /\ boards'[j].solved)]_vars

\* C6 witness: a solved instance on which a further move was played
C6_Witness ==
    \E j \in 1..Len(boards) :
        /\ boards[j].solved
        /\ boards[j].stepIndex > Len(boards[j].solution)

\* C7: an instance whose solution is empty is never solved.
C7_EmptyNeverSolved ==
    \A j \in 1..Len(boards) :
        Len(boards[j].solution) = 0 => ~boards[j].solved

\* C7 witness: moves were played on an instance with an empty solution
C7_Witness ==
    \E j \in 1..Len(boards) :
        /\ Len(boards[j].solution) = 0
        /\ boards[j].version = 2

\* C8 (as claimed): a played move sets one auto-advance timer when it is
\* classified incorrect or takes the instance from unsolved to solved, and
\* none otherwise.
C8_AdvanceOnlyOnMissOrSolve ==
    [][\A j \in 1..Len(boards) :
          MoveStep(j)
          => LET set == Len(advanceTimers') - Len(advanceTimers)
             IN  /\ set \in {0, 1}
                 /\ (set = 1)
                      <=> (\/ boards'[j].lastMoveCorrect = "false"
                           \/ (~boards[j].solved /\ boards'[j].solved))]_vars

\* C9: never more than one append timer is pending; while the in-flight flag
\* is set no step starts another; the feed only grows by one instance at a
\* time, in the step that clears the flag.
C9_SingleAppendInFlight ==
    [][/\ appendTimers' <= 1
       /\ loadingRef => appendTimers' <= appendTimers
       /\ Len(boards') # Len(boards)
            => /\ Len(boards') = Len(boards) + 1
               /\ loadingRef
               /\ ~loadingRef']_vars

\* C9 witness: an append is pending on the initial feed of two, a move has
\* been played on the second instance and the first is in view again: the
\* view change back called addBoard while the flag was set
C9_Witness ==
    /\ Len(boards) = InitialBoards
    /\ loadingRef
    /\ appendTimers = 1
    /\ boards[2].version > 0
    /\ currentIndex = 0

\* C10 (as claimed): a viewability signal for idx, here one that changes the
\* page in view, starts an append when none is pending exactly if
\* boards.length - idx < 3 for the feed as it is at the signal.
C10_PreloadOnlyNearEnd ==
    [][(currentIndex' # currentIndex /\ ~loadingRef)
         => (loadingRef' <=> Len(boards) - currentIndex' < LookaheadMin)]_vars

\* number of instances strictly after the page in view
Ahead == Len(boards) - 1 - currentIndex

\* C11 (as claimed): once the first lookahead check has run and its append
\* has landed (the feed has grown beyond its initial length), at least 2
\* instances lie after the page in view, in every state.
C11_TwoAhead ==
    Len(boards) > InitialBoards => Ahead >= 2

\* the instance was built from the puzzle definition def
BuiltFrom(b, def) ==
    /\ b.chess.fen = def.fen
    /\ b.solution = def.solution

\* C12: with a catalog of K definitions, the instance at feed index i is
\* built from definition i mod K, for the instances of the initial feed and
\* for every appended one, and the append cursor equals the feed length.
C12_CyclesThroughCatalog ==
    /\ cursorRef = Len(boards)
    /\ \A i \in 0..(Len(boards) - 1) :
          BuiltFrom(boards[i + 1], catalog[(i % Len(catalog)) + 1])

\* C12 witness: the feed has wrapped around a catalog of more than one
\* definition: an appended instance is built from the first definition again
C12_Witness ==
    /\ Len(catalog) > 1
    /\ Len(boards) > Len(catalog)
    /\ Len(boards) > InitialBoards
    /\ BuiltFrom(boards[Len(boards)], catalog[1])

\* C13: the feed is append-only: no step (a move, a toggle, an append, a view
\* change, a timer) shortens the feed or changes the id found at an index.
C13_AppendOnly ==
    [][/\ Len(boards') >= Len(boards)
       /\ \A j \in 1..Len(boards) : boards'[j].id = boards[j].id]_vars

\* C13 witness: the feed has grown to its bound after a move and a toggle
C13_Witness ==
    /\ Len(boards) = MaxBoards
    /\ \E j \in 1..Len(boards) : boards[j].version > 0
    /\ \E j \in 1..Len(boards) : boards[j].liked \/ boards[j].starred

\* C14: after any toggle of liked (the heart button, the double tap, the like
\* tap) the same toggle applied once more gives back the feed as it was
\* before the first: liked has its original value and every other field of
\* every instance is as before; the same holds for the toggles of starred.
C14_ToggleTwiceRestores ==
    [][/\ \A i \in 0..(Len(boards) - 1) :
            /\ ToggleLike(i) => LikedById(boards', boards[i + 1].id) = boards
            /\ ToggleStar(i) => StarredById(boards', boards[i + 1].id) = boards
       /\ OnDoubleTap => LikedAtIndex(boards', currentIndex) = boards
       /\ OnTapLike => LikedAtIndex(boards', currentIndex) = boards
       /\ OnTapStar => StarredAtIndex(boards', currentIndex) = boards]_vars

\* C14 witness: an instance on which a move was played has been liked
C14_Witness ==
    \E j \in 1..Len(boards) :
        /\ boards[j].liked
        /\ boards[j].lastMoveCorrect # "undefined"

\* the feed prev with only the field liked of the instance at index i flipped
OnlyLikedFlipped(prev, i) == [prev EXCEPT ![i + 1].liked = ~prev[i + 1].liked]

\* the feed prev with only the field starred of the instance at index i flipped
OnlyStarredFlipped(prev, i) == [prev EXCEPT ![i + 1].starred = ~prev[i + 1].starred]

\* C15: a toggle of starred changes only the starred field of the instance it
\* is applied to: its liked, stepIndex, solved, lastMove, lastMoveCorrect and
\* every other field are unchanged and so is every other instance; a toggle
\* of liked changes only liked, in the same way.
C15_ToggleChangesOneField ==
    [][/\ \A i \in 0..(Len(boards) - 1) :
            /\ ToggleStar(i) => boards' = OnlyStarredFlipped(boards, i)
            /\ ToggleLike(i) => boards' = OnlyLikedFlipped(boards, i)
       /\ OnTapStar => boards' = OnlyStarredFlipped(boards, currentIndex)
       /\ OnTapLike => boards' = OnlyLikedFlipped(boards, currentIndex)
       /\ OnDoubleTap => boards' = OnlyLikedFlipped(boards, currentIndex)]_vars

\* C15 witness: an instance with a classified move is starred and not liked,
\* beside an untouched instance
C15_Witness ==
    \E j, k \in 1..Len(boards) :
        /\ boards[j].starred
        /\ ~boards[j].liked
        /\ boards[j].lastMoveCorrect # "undefined"
        /\ ~boards[k].starred

\* the step plays a move on the board of the instance boards[j]
MovePlayedOn(j) ==
    /\ j \in 1..Len(boards')
    /\ boards'[j].chess # boards[j].chess

\* C16 (as claimed): a move played on an instance whose stepIndex has reached
\* the length of its solution leaves stepIndex, solved, lastMove and
\* lastMoveCorrect as they were and sets no auto-advance timer.
C16_NoOpPastTheEnd ==
    [][\A j \in 1..Len(boards) :
          (MovePlayedOn(j) /\ boards[j].stepIndex >= Len(boards[j].solution))
          => /\ boards'[j].stepIndex = boards[j].stepIndex
             /\ boards'[j].solved = boards[j].solved
             /\ boards'[j].lastMove = boards[j].lastMove
             /\ boards'[j].lastMoveCorrect = boards[j].lastMoveCorrect
             /\ advanceTimers' = advanceTimers]_vars

\* C17 (as claimed): when the auto-advance timer of a move on the instance at
\* index i fires, it scrolls to i + 1 if the feed has an instance there at
\* that moment and to the last index of the feed otherwise; the target is a
\* valid index of the feed as it is then.
C17_AdvanceToNextIfPresent ==
    [][\A k \in 1..Len(advanceTimers) :
          FireAdvance(k)
          => LET i == advanceTimers[k].i
                 last == Len(boards) - 1
             IN  /\ scrollTarget' = (IF i + 1 <= last THEN i + 1 ELSE last)
                 /\ scrollTarget' \in 0..last]_vars

\* the step flips liked or starred of the instance boards[j]
ReactionOn(j) ==
    /\ j \in 1..Len(boards')
    /\ \/ boards'[j].liked # boards[j].liked
       \/ boards'[j].starred # boards[j].starred

\* C18 (as claimed): the version of an instance never decreases, and every
\* step that changes the instance (a classified move, a like toggle, a star
\* toggle) strictly increases it.
C18_EveryMutationBumps ==
    [][\A j \in 1..Len(boards) :
          /\ boards'[j].version >= boards[j].version
          /\ boards'[j] # boards[j] => boards'[j].version > boards[j].version]_vars

\* C18 (amended): the version of an instance never decreases; a classified
\* move, correct or incorrect, raises it by exactly 1; a like or star toggle
\* leaves it as it was, and so does every step that plays no move on it.
C18_OnlyMovesBump ==
    [][\A j \in 1..Len(boards) :
          /\ boards'[j].version >= boards[j].version
          /\ MovePlayedOn(j) => boards'[j].version = boards[j].version + 1
          /\ ReactionOn(j) => boards'[j].version = boards[j].version
          /\ ~MovePlayedOn(j) => boards'[j].version = boards[j].version]_vars

\* C18 witness: one instance has a move classified incorrect and another,
\* left at version 0, has been starred
C18_Witness ==
    \E j, k \in 1..Len(boards) :
        /\ boards[j].version = 1
        /\ boards[j].lastMoveCorrect = "false"
        /\ boards[k].starred
        /\ boards[k].version = 0

\* C19: on every instance lastMove is set exactly when lastMoveCorrect is
\* set: both are unset on a fresh instance and both are set once a move has
\* been played on it, correct or incorrect.
C19_LastMoveSetTogether ==
    \A j \in 1..Len(boards) :
        /\ (boards[j].lastMove = NoMove) <=> (boards[j].lastMoveCorrect = "undefined")
        /\ (boards[j].version = 0) <=> (boards[j].lastMove = NoMove)

\* C19 witness: a feed with an instance whose last move was correct, one
\* whose last move was incorrect and a fresh one
C19_Witness ==
    \E j, k, l \in 1..Len(boards) :
        /\ boards[j].lastMoveCorrect = "true" /\ boards[j].lastMove # NoMove
        /\ boards[k].lastMoveCorrect = "false" /\ boards[k].lastMove # NoMove
        /\ boards[l].lastMoveCorrect = "undefined" /\ boards[l].lastMove = NoMove

\* C20: the instance at feed index i has id b-i, so the ids of the feed are
\* pairwise distinct, whatever moves, toggles and view changes are
\* interleaved with the deferred appends.
C20_IdIsIndex ==
    /\ \A i \in 0..(Len(boards) - 1) : boards[i + 1].id = i
    /\ \A j, k \in 1..Len(boards) : boards[j].id = boards[k].id => j = k

\* C20 witness: a move was played and a flag set on the feed, an instance has
\* been appended and a further append is pending
C20_Witness ==
    /\ Len(boards) > InitialBoards
    /\ loadingRef
    /\ appendTimers = 1
    /\ \E j \in 1..Len(boards) : boards[j].version > 0
    /\ \E j \in 1..Len(boards) : boards[j].liked \/ boards[j].starred

\* C21: a move played on one instance changes only that instance (its
\* position, stepIndex, solved, lastMove, lastMoveCorrect and version); every
\* other instance of the feed, built from the same definition or not, is
\* left as it was, and no two instances are changed in one step.
C21_MoveChangesOneInstance ==
    [][\A j \in 1..Len(boards) :
          MovePlayedOn(j)
          => /\ boards'[j].version = boards[j].version + 1
             /\ \A k \in 1..Len(boards) : k # j => boards'[k] = boards[k]]_vars

\* C21 witness: of two instances built from the same definition, one has had
\* a move played on its board and the other still has the loaded position
C21_Witness ==
    \E j, k \in 1..Len(boards) :
        /\ j # k
        /\ boards[j].chess.fen = boards[k].chess.fen
        /\ boards[j].version > 0
        /\ boards[j].chess # LoadFen(boards[j].chess.fen)
        /\ boards[k] = createBoardFromPreset(catalog[1], k - 1)

\* C22: a position changes only by a move on a Board that holds a selection
\* and is tapped on the destination of one of the legal moves listed for the
\* selected square: the engine applies that move, onMovePlayed is handed it
\* (and is called for no other reason), and the selection and its target
\* list are cleared; a target list held by a Board is the list of the legal
\* moves of the selected piece, which belongs to the side to move.
C22_OnlyLegalTargetsArePlayed ==
    [][/\ \A j \in 1..Len(boards) :
            /\ MovePlayedOn(j)
                 => LET ui == boardUI[j]
                        chess == boards[j].chess
                    IN  /\ ui.selected # NoSquare
                        /\ \E m \in ui.moves :
                              /\ m \in LegalMoves(chess, ui.selected)
                              /\ boards'[j].chess = ApplyMove(chess, m)
                              /\ boards'[j].lastMove = m
                        /\ boardUI'[j] = FreshUI
            /\ boards'[j].version # boards[j].version => MovePlayedOn(j)
       /\ \A j \in 1..Len(boards') :
            LET ui == boardUI'[j]
                chess == boards'[j].chess
            IN  ui.selected # NoSquare
                => /\ PieceColor(chess, ui.selected) = chess.turn
                   /\ ui.moves = LegalMoves(chess, ui.selected)]_vars

\* C22 witness: a move was applied on a Board and classified, and the Board
\* now holds a selection of the other side with a legal target listed
C22_Witness ==
    \E j \in 1..Len(boards) :
        /\ boards[j].version = 1
        /\ boards[j].chess.turn # FenTurn(boards[j].chess.fen)
        /\ boardUI[j].selected # NoSquare
        /\ boardUI[j].moves # {}

\* C23 (as claimed): the Splash navigates once per startup; it routes to the
\* puzzle feed when the flag "onboardingCompleted" is stored (onboarding was
\* completed in an earlier startup) and to onboarding when no flag is stored.
C23_FlagDecidesRoute ==
    [][SplashAnimationEnds
         => /\ replaces' = 1
            /\ storedFlag = "1" => screen' = "puzzles"
            /\ storedFlag = "null" => screen' = "onboarding"]_vars

\* C24: a failure of the store is not fatal: after a rejected read the Splash
\* can still navigate, holds onboarding as not completed and routes to
\* onboarding; a rejected write at the end of onboarding stores nothing and
\* the puzzle feed is entered all the same.
C24_StoreFailureNotFatal ==
    [][/\ readState = "failed"
            => /\ ~hasCompletedRef
               /\ screen = "splash" => ENABLED SplashAnimationEnds
       /\ (SplashAnimationEnds /\ readState = "failed")
            => /\ screen' = "onboarding"
               /\ replaces' = 1
       /\ WriteRejects
            => /\ screen' = "puzzles"
               /\ storedFlag' = storedFlag]_vars

\* C24 witness: in one startup the read was rejected, the Splash has routed
\* to onboarding, and the write at its end was rejected: the feed is shown
\* and nothing is stored
C24_Witness ==
    /\ readState = "failed"
    /\ replaces = 1
    /\ screen = "puzzles"
    /\ storedFlag = "null"

\* C25: an instance that is solved has lastMoveCorrect = true: no sequence of
\* moves leaves an instance solved with its latest move marked incorrect.
C25_SolvedHasCorrectLastMove ==
    \A j \in 1..Len(boards) :
        boards[j].solved => boards[j].lastMoveCorrect = "true"

\* C25 witness: a solved instance on which more moves were played than its
\* solution has steps (an incorrect one before, or a further one after)
C25_Witness ==
    \E j \in 1..Len(boards) :
        /\ boards[j].solved
        /\ boards[j].lastMoveCorrect = "true"
        /\ boards[j].version > Len(boards[j].solution)

\* C26: for every puzzle of the preset catalog, the player who taps a line
\* of play on its Board (selecting only pieces of the side to move, the turn
\* passing after every applied move) reaches solved = true; the two-step
\* puzzles are completed after their first correct move.
C26_EveryPresetSolvable ==
    <>(/\ boards[1].solved
       /\ boards[1].stepIndex = Len(boards[1].solution))

\* C26 witness: a two-step puzzle is solved; between its two steps a move of
\* the other side was played and classified incorrect
C26_Witness ==
    /\ Len(boards[1].solution) = 2
    /\ boards[1].solved
    /\ boards[1].stepIndex = 2
    /\ boards[1].version = 3
    /\ boards[1].lastMoveCorrect = "true"

\* C27: an addBoard call accepted while loadingRef.current is false sets one
\* timer, and from then on the feed eventually has exactly one instance more
\* and the flag is false again; a call made while the flag is true sets no
\* timer and leaves the feed as long as it is, so that never more than one
\* append is pending and the feed grows only by the one instance of the
\* pending timer.
C27_AcceptedAppendsOnceDroppedNever ==
    /\ \A n \in InitialBoards..MaxBoards :
          (loadingRef /\ Len(boards) = n) ~> (~loadingRef /\ Len(boards) = n + 1)
    /\ [](appendTimers = IF loadingRef THEN 1 ELSE 0)
    /\ [][/\ (~loadingRef /\ loadingRef')
               => (appendTimers' = appendTimers + 1 /\ Len(boards') = Len(boards))
          /\ (loadingRef /\ loadingRef')
               => (appendTimers' = appendTimers /\ Len(boards') = Len(boards))
          /\ (loadingRef /\ ~loadingRef')
               => (Len(boards') = Len(boards) + 1 /\ appendTimers' = 0)
          /\ ~loadingRef => Len(boards') = Len(boards)]_vars

\* C27 witness: two accepted calls have each appended one instance, the flag
\* is false again and no timer is left
C27_Witness ==
    /\ Len(boards) = InitialBoards + 2
    /\ cursorRef = InitialBoards + 2
    /\ ~loadingRef
    /\ appendTimers = 0

====
